---- MODULE Spec2Model ----
(***************************************************************************)
(* Model of odinupdater/fuse-sparse.cpp: a FUSE driver that exports the    *)
(* decoded contents of one sparse image as a single read-only file.        *)
(*                                                                         *)
(* main() parses its arguments, opens the source, probes the logical size  *)
(* once (get_sparse_file_size) and enters fuse_main.  While the file       *)
(* system is exported, the host's worker threads run the four callbacks    *)
(* fuse_getattr, fuse_open, fuse_read and fuse_release concurrently.       *)
(*                                                                         *)
(* mb::StandardFile (byte source) and mb::sparse::SparseFile (decoder)     *)
(* live in libmbcommon / libmbsparse; they are modelled from their         *)
(* interface contract: a decoder holds a seek position, read produces the  *)
(* bytes of the decoded image from that position up to the end of stream,  *)
(* and every operation may fail with an error (category, value).           *)
(***************************************************************************)
EXTENDS Integers, Sequences, FiniteSets, TLC

\* ------------------------------------------------------------------ bounds

\* Number of host worker threads that run callbacks concurrently.
NumThreads == 2
\* Number of distinct addresses operator new can hand out for a context.
MaxCtx == 2
\* Logical (decoded) size of the sparse image, in bytes.
ImageSize == 2
\* Largest numeric value of a library error (errno values 1..MaxErrno).
MaxErrno == 1
\* Largest value of fi->flags the host passes to open.
MaxFlags == 4
\* Width of the callbacks' int result, scaled down from 32 bits.
IntBits == 8

\* ------------------------------------------------------- program constants

EROFS == 30
ENOMEM == 12
EIO == 5
O_WRONLY == 1
O_RDWR == 2
EXIT_FAILURE == 1

\* ------------------------------------------------------------------ domains

Threads == 1..NumThreads
Addrs == 1..MaxCtx
Offsets == 0..(ImageSize + 1)
Lengths == 0..(ImageSize + 1)
OpenFlags == 0..MaxFlags

\* std::error_code as reported by error(): a category and a numeric value.
\* "sparse" stands for every category that is neither generic nor system.
Categories == {"generic", "system", "sparse"}
Errors == [category : Categories, value : 1..MaxErrno]
NoErr == [category |-> "none", value |-> 0]

Min(a, b) == IF a < b THEN a ELSE b
Max(a, b) == IF a > b THEN a ELSE b

RECURSIVE Pow2(_)
Pow2(n) == IF n = 0 THEN 1 ELSE 2 * Pow2(n - 1)

\* a & b on naturals.
RECURSIVE BitAnd(_, _)
BitAnd(a, b) ==
    IF a = 0 \/ b = 0 THEN 0
    ELSE (IF a % 2 = 1 /\ b % 2 = 1 THEN 1 ELSE 0) + 2 * BitAnd(a \div 2, b \div 2)

\* Faulty variant: the count passes through a type one bit narrower than the
\* callback's int.
SizeToInt_narrow(n) ==
    LET m == n % Pow2(IntBits - 1)
    IN  IF m >= Pow2(IntBits - 2) THEN m - Pow2(IntBits - 1) ELSE m

\* Conversion of an unsigned count to the callback's int result
\* (two's complement, IntBits wide).
SizeToInt(n) ==
    LET m == n % Pow2(IntBits)
    IN  IF m >= Pow2(IntBits - 1) THEN m - Pow2(IntBits) ELSE m

\* --------------------------------------------------- decoder (libmbsparse)

\* The decoded image: byte i (0-based) is the ASCII digit of i.
Image == [i \in 1..ImageSize |-> 48 + ((i - 1) % 10)]

\* SparseFile::size()
SparseSize == Len(Image)

\* SparseFile::seek(offset, SEEK_SET): the new position.
SparseSeek(offset) == offset

\* SparseFile::read(buf, size, n): the count produced at position pos.
SparseReadCount(pos, size) == Min(size, Max(0, SparseSize - pos))

\* SparseFile::read(buf, size, n): the bytes produced at position pos.
SparseReadBytes(pos, size) ==
    [i \in 1..SparseReadCount(pos, size) |-> Image[pos + i]]

\* The bytes a full sequential decode holds in [o, o + n), cut at the end.
Decoded(o, n) == SubSeq(Image, o + 1, Min(o + n, ImageSize))

\* ------------------------------------------------------------------- state

VARIABLES
    mainPc,       \* main()'s position
    show_help,    \* arg_ctx.show_help
    have_source,  \* arg_ctx.source_file != nullptr
    have_target,  \* arg_ctx.target_file != nullptr
    probeRet,     \* result of get_sparse_file_size()
    probeErr,     \* error the size probe met, NoErr if none
    probeLog,     \* error the size probe described on stderr, NoErr if none
    exitStatus,   \* main()'s return value, once mainPc = "exited"
    sparse_size,  \* static uint64_t sparse_size
    sizeWrites,   \* number of assignments to sparse_size so far
    ctxs,         \* heap: address -> context, or NoCtx when not allocated
    fh,           \* handle values (fi->fh) of the host's open files
    pc,           \* per thread: position in the callback it runs
    call,         \* per thread: the callback's arguments
    result        \* per thread: what the callback produced

vars == <<mainPc, show_help, have_source, have_target, probeRet, probeErr, probeLog,
          exitStatus, sparse_size, sizeWrites, ctxs, fh, pc, call, result>>

mainVars == <<mainPc, show_help, have_source, have_target, probeRet, probeErr, probeLog,
              exitStatus, sparse_size, sizeWrites>>

\* struct context: source_file, sparse_file (with its seek position), mutex
\* (0 when unlocked, else the owning thread).
NoCtx == [live |-> FALSE, source_open |-> FALSE, sparse_open |-> FALSE,
          pos |-> 0, mutex |-> 0]

NewCtx == [live |-> TRUE, source_open |-> FALSE, sparse_open |-> FALSE,
           pos |-> 0, mutex |-> 0]

NoCall == [op |-> "none", h |-> 0, flags |-> 0, offset |-> 0, size |-> 0]
\* ret: the callback's return value; buf, n: the bytes and the count the
\* decoder's read produced; err, site: the failure met and where; log: the
\* error described on stderr; nseek, nread: decoder calls made so far.
NoResult == [ret |-> 0, buf |-> <<>>, n |-> 0, err |-> NoErr, site |-> "none",
             log |-> NoErr, nseek |-> 0, nread |-> 0, st_size |-> 0]

Init ==
    /\ mainPc = "start"
    /\ show_help = FALSE
    /\ have_source = FALSE
    /\ have_target = FALSE
    /\ probeRet = 0
    /\ probeErr = NoErr
    /\ probeLog = NoErr
    /\ exitStatus = 0
    /\ sparse_size = 0
    /\ sizeWrites = 0
    /\ ctxs = [a \in Addrs |-> NoCtx]
    /\ fh = {}
    /\ pc = [t \in Threads |-> "idle"]
    /\ call = [t \in Threads |-> NoCall]
    /\ result = [t \in Threads |-> NoResult]

\* ------------------------------------------------------- error translation
\* The same expression is written out at each of the six failure sites.

\* Faulty variant: only the generic category is passed through.
TranslateOpenSource_generic(e) ==
    IF e.category = "generic" THEN -e.value ELSE -EIO

TranslateOpenSource(e) ==
    IF e.category = "generic" \/ e.category = "system" THEN -e.value ELSE -EIO

TranslateOpenSparse(e) ==
    IF e.category = "generic" \/ e.category = "system" THEN -e.value ELSE -EIO

TranslateSeek(e) ==
    IF e.category = "generic" \/ e.category = "system" THEN -e.value ELSE -EIO

TranslateRead(e) ==
    IF e.category = "generic" \/ e.category = "system" THEN -e.value ELSE -EIO

TranslateProbeSource(e) ==
    IF e.category = "generic" \/ e.category = "system" THEN -e.value ELSE -EIO

TranslateProbeSparse(e) ==
    IF e.category = "generic" \/ e.category = "system" THEN -e.value ELSE -EIO

\* -------------------------------------------------------------------- main

\* fuse_opt_parse() fails.
MainParseFail ==
    /\ mainPc = "start"
    /\ mainPc' = "exited"
    /\ exitStatus' = EXIT_FAILURE
    /\ UNCHANGED <<show_help, have_source, have_target, probeRet, probeErr, probeLog,
                   sparse_size, sizeWrites, ctxs, fh, pc, call, result>>

\* fuse_opt_parse() with fuse_opt_proc: the first non-option argument is the
\* source file, the second the target file; -h / --help sets show_help.
MainParse ==
    /\ mainPc = "start"
    /\ \E h \in BOOLEAN, s \in BOOLEAN, g \in BOOLEAN :
          /\ g => s
          /\ show_help' = h
          /\ have_source' = s
          /\ have_target' = g
    /\ mainPc' = "parsed"
    /\ UNCHANGED <<probeRet, probeErr, probeLog, exitStatus, sparse_size, sizeWrites,
                   ctxs, fh, pc, call, result>>

\* The argument checks and open(source, O_RDONLY); skipped with show_help.
MainOpenSource ==
    /\ mainPc = "parsed"
    /\ \/ /\ show_help
          /\ mainPc' = "fuse_main"
          /\ UNCHANGED exitStatus
       \/ /\ ~show_help
          /\ ~have_source \/ ~have_target
          /\ mainPc' = "exited"
          /\ exitStatus' = EXIT_FAILURE
       \/ /\ ~show_help /\ have_source /\ have_target
          /\ \/ /\ mainPc' = "exited"
                /\ exitStatus' = EXIT_FAILURE
             \/ /\ mainPc' = "probe"
                /\ UNCHANGED exitStatus
    /\ UNCHANGED <<show_help, have_source, have_target, probeRet, probeErr, probeLog,
                   sparse_size, sizeWrites, ctxs, fh, pc, call, result>>

\* get_sparse_file_size(): source_file.open() fails.
ProbeSourceFail ==
    /\ mainPc = "probe"
    /\ \E e \in Errors :
          /\ probeErr' = e
          /\ probeLog' = e
          /\ probeRet' = TranslateProbeSource(e)
    /\ mainPc' = "probed"
    /\ UNCHANGED <<show_help, have_source, have_target, exitStatus,
                   sparse_size, sizeWrites, ctxs, fh, pc, call, result>>

\* get_sparse_file_size(): sparse_file.open() fails.
ProbeSparseFail ==
    /\ mainPc = "probe"
    /\ \E e \in Errors :
          /\ probeErr' = e
          /\ probeLog' = e
          /\ probeRet' = TranslateProbeSparse(e)
    /\ mainPc' = "probed"
    /\ UNCHANGED <<show_help, have_source, have_target, exitStatus,
                   sparse_size, sizeWrites, ctxs, fh, pc, call, result>>

\* Faulty variant: the size is not stored.
ProbeOk_nostore ==
    /\ mainPc = "probe"
    /\ probeRet' = 0
    /\ mainPc' = "probed"
    /\ UNCHANGED <<show_help, have_source, have_target, probeErr, probeLog, exitStatus,
                   sparse_size, sizeWrites, ctxs, fh, pc, call, result>>

\* get_sparse_file_size(): both opens succeed, the size is cached.
ProbeOk ==
    /\ mainPc = "probe"
    /\ sparse_size' = SparseSize
    /\ sizeWrites' = sizeWrites + 1
    /\ probeRet' = 0
    /\ mainPc' = "probed"
    /\ UNCHANGED <<show_help, have_source, have_target, probeErr, probeLog, exitStatus,
                   ctxs, fh, pc, call, result>>

\* Faulty variant: the test is > 0 instead of < 0.
MainCheckProbe_positive ==
    /\ mainPc = "probed"
    /\ IF probeRet > 0
       THEN /\ mainPc' = "exited"
            /\ exitStatus' = EXIT_FAILURE
       ELSE /\ mainPc' = "fuse_main"
            /\ UNCHANGED exitStatus
    /\ UNCHANGED <<show_help, have_source, have_target, probeRet, probeErr, probeLog,
                   sparse_size, sizeWrites, ctxs, fh, pc, call, result>>

\* if (get_sparse_file_size() < 0) { close(fd); return EXIT_FAILURE; }
MainCheckProbe ==
    /\ mainPc = "probed"
    /\ IF probeRet < 0
       THEN /\ mainPc' = "exited"
            /\ exitStatus' = EXIT_FAILURE
       ELSE /\ mainPc' = "fuse_main"
            /\ UNCHANGED exitStatus
    /\ UNCHANGED <<show_help, have_source, have_target, probeRet, probeErr, probeLog,
                   sparse_size, sizeWrites, ctxs, fh, pc, call, result>>

\* fuse_main() is entered.  With show_help the argument "-ho" was added and
\* the host prints its options and mounts nothing; otherwise it either fails
\* to mount or exports the file system and starts to run callbacks.
MainFuseMain ==
    /\ mainPc = "fuse_main"
    /\ \/ /\ show_help
          /\ mainPc' = "help"
       \/ /\ ~show_help
          /\ mainPc' \in {"mount_failed", "serving"}
    /\ UNCHANGED <<show_help, have_source, have_target, probeRet, probeErr, probeLog,
                   exitStatus, sparse_size, sizeWrites, ctxs, fh, pc, call,
                   result>>

\* fuse_main() returns: after the help text, after a failed mount, or after
\* the unmount (no file is open any more, no callback is running).
MainFuseReturn ==
    /\ \/ /\ mainPc = "help"
          /\ exitStatus' \in {0, 1}
       \/ /\ mainPc = "mount_failed"
          /\ exitStatus' = 1
       \/ /\ mainPc = "serving"
          /\ fh = {}
          /\ \A t \in Threads : pc[t] = "idle"
          /\ exitStatus' \in {0, 1}
    /\ mainPc' = "exited"
    /\ UNCHANGED <<show_help, have_source, have_target, probeRet, probeErr, probeLog,
                   sparse_size, sizeWrites, ctxs, fh, pc, call, result>>

\* ------------------------------------------------------- host (libfuse)

\* The host runs callbacks only while the file system is exported.
Serving == mainPc = "serving"

\* A thread is inside fuse_read on handle a.
InRead(t, a) ==
    /\ pc[t] \in {"lock", "seek", "read", "unlock"}
    /\ call[t].h = a

\* fuse_open has stored handle a in fi->fh but has not yet returned it.
InOpen(t, a) ==
    /\ pc[t] = "ret"
    /\ call[t].op = "open"
    /\ call[t].h = a

\* The host reads only through the handle of a file it holds open: one
\* whose open has returned and that has not been released.
HostMayRead(a) ==
    /\ a \in fh
    /\ \A t \in Threads : ~InOpen(t, a)

\* The host releases an open file once, after all its requests completed.
HostMayRelease(a) ==
    /\ a \in fh
    /\ \A t \in Threads : ~InOpen(t, a) /\ ~InRead(t, a)

\* --------------------------------------------------------------- fuse_open

\* Faulty variant: only O_WRONLY is tested.
WantsWrite_wronly(flags) == BitAnd(flags, O_WRONLY) # 0

\* if (fi->flags & (O_WRONLY | O_RDWR)): the bits are disjoint, | is +.
WantsWrite(flags) == BitAnd(flags, O_WRONLY + O_RDWR) # 0

\* Addresses operator new may return: those of no live context.
FreeAddrs == {a \in Addrs : ~ctxs[a].live}

\* delete ctx: the context and what it owns are destroyed.
DeleteCtx(heap, a) == [heap EXCEPT ![a] = NoCtx]

\* Write or read-write access is refused.
OpenRofs(t) ==
    /\ Serving
    /\ pc[t] = "idle"
    /\ \E flags \in OpenFlags :
          /\ WantsWrite(flags)
          /\ call' = [call EXCEPT ![t] = [NoCall EXCEPT !.op = "open",
                                                        !.flags = flags]]
    /\ result' = [result EXCEPT ![t] = [NoResult EXCEPT !.ret = -EROFS]]
    /\ pc' = [pc EXCEPT ![t] = "ret"]
    /\ UNCHANGED <<mainVars, ctxs, fh>>

\* new(std::nothrow) context() returns nullptr.
OpenNoMem(t) ==
    /\ Serving
    /\ pc[t] = "idle"
    /\ \E flags \in OpenFlags :
          /\ ~WantsWrite(flags)
          /\ call' = [call EXCEPT ![t] = [NoCall EXCEPT !.op = "open",
                                                        !.flags = flags]]
    /\ result' = [result EXCEPT ![t] = [NoResult EXCEPT !.ret = -ENOMEM]]
    /\ pc' = [pc EXCEPT ![t] = "ret"]
    /\ UNCHANGED <<mainVars, ctxs, fh>>

\* Faulty variant: the failure path returns the code without the fprintf.
OpenSourceFail_nolog(t) ==
    /\ Serving
    /\ pc[t] = "idle"
    /\ \E flags \in OpenFlags, a \in FreeAddrs, e \in Errors :
          /\ ~WantsWrite(flags)
          /\ call' = [call EXCEPT ![t] = [NoCall EXCEPT !.op = "open",
                                                        !.flags = flags]]
          /\ result' = [result EXCEPT ![t] =
                           [NoResult EXCEPT !.ret = TranslateOpenSource(e),
                                            !.err = e,
                                            !.site = "open_source"]]
          /\ ctxs' = DeleteCtx([ctxs EXCEPT ![a] = NewCtx], a)
    /\ pc' = [pc EXCEPT ![t] = "ret"]
    /\ UNCHANGED <<mainVars, fh>>

\* ctx->source_file.open() fails: the error is printed to stderr and the
\* context is deleted.
OpenSourceFail(t) ==
    /\ Serving
    /\ pc[t] = "idle"
    /\ \E flags \in OpenFlags, a \in FreeAddrs, e \in Errors :
          /\ ~WantsWrite(flags)
          /\ call' = [call EXCEPT ![t] = [NoCall EXCEPT !.op = "open",
                                                        !.flags = flags]]
          /\ result' = [result EXCEPT ![t] =
                           [NoResult EXCEPT !.ret = TranslateOpenSource(e),
                                            !.err = e,
                                            !.log = e,
                                            !.site = "open_source"]]
          /\ ctxs' = DeleteCtx([ctxs EXCEPT ![a] = NewCtx], a)
    /\ pc' = [pc EXCEPT ![t] = "ret"]
    /\ UNCHANGED <<mainVars, fh>>

\* Faulty variant: fi->fh is assigned before the decoder is opened and is
\* left pointing at the context the failure path deletes.
OpenSparseFail_storefh(t) ==
    /\ Serving
    /\ pc[t] = "idle"
    /\ \E flags \in OpenFlags, a \in FreeAddrs, e \in Errors :
          /\ ~WantsWrite(flags)
          /\ call' = [call EXCEPT ![t] = [NoCall EXCEPT !.op = "open",
                                                        !.flags = flags,
                                                        !.h = a]]
          /\ result' = [result EXCEPT ![t] =
                           [NoResult EXCEPT !.ret = TranslateOpenSparse(e),
                                            !.err = e,
                                            !.log = e,
                                            !.site = "open_sparse"]]
          /\ ctxs' = DeleteCtx(
                        [ctxs EXCEPT ![a] = [NewCtx EXCEPT !.source_open = TRUE]],
                        a)
          /\ fh' = fh \cup {a}
    /\ pc' = [pc EXCEPT ![t] = "ret"]
    /\ UNCHANGED mainVars

\* Faulty variant: the failure path returns without delete ctx.
OpenSparseFail_leak(t) ==
    /\ Serving
    /\ pc[t] = "idle"
    /\ \E flags \in OpenFlags, a \in FreeAddrs, e \in Errors :
          /\ ~WantsWrite(flags)
          /\ call' = [call EXCEPT ![t] = [NoCall EXCEPT !.op = "open",
                                                        !.flags = flags]]
          /\ result' = [result EXCEPT ![t] =
                           [NoResult EXCEPT !.ret = TranslateOpenSparse(e),
                                            !.err = e,
                                            !.log = e,
                                            !.site = "open_sparse"]]
          /\ ctxs' = [ctxs EXCEPT ![a] = [NewCtx EXCEPT !.source_open = TRUE]]
    /\ pc' = [pc EXCEPT ![t] = "ret"]
    /\ UNCHANGED <<mainVars, fh>>

\* ctx->sparse_file.open() fails: the context, with its open source file,
\* is deleted.
OpenSparseFail(t) ==
    /\ Serving
    /\ pc[t] = "idle"
    /\ \E flags \in OpenFlags, a \in FreeAddrs, e \in Errors :
          /\ ~WantsWrite(flags)
          /\ call' = [call EXCEPT ![t] = [NoCall EXCEPT !.op = "open",
                                                        !.flags = flags]]
          /\ result' = [result EXCEPT ![t] =
                           [NoResult EXCEPT !.ret = TranslateOpenSparse(e),
                                            !.err = e,
                                            !.log = e,
                                            !.site = "open_sparse"]]
          /\ ctxs' = DeleteCtx(
                        [ctxs EXCEPT ![a] = [NewCtx EXCEPT !.source_open = TRUE]],
                        a)
    /\ pc' = [pc EXCEPT ![t] = "ret"]
    /\ UNCHANGED <<mainVars, fh>>

\* Faulty variant: the open hands out a context that may already belong to
\* an open handle instead of a newly allocated one.
OpenOk_shared(t) ==
    /\ Serving
    /\ pc[t] = "idle"
    /\ \E flags \in OpenFlags, a \in Addrs :
          /\ ~WantsWrite(flags)
          /\ call' = [call EXCEPT ![t] = [NoCall EXCEPT !.op = "open",
                                                        !.flags = flags,
                                                        !.h = a]]
          /\ ctxs' = [ctxs EXCEPT ![a] =
                         IF ctxs[a].live THEN ctxs[a]
                         ELSE [NewCtx EXCEPT !.source_open = TRUE,
                                             !.sparse_open = TRUE]]
          /\ fh' = fh \cup {a}
    /\ result' = [result EXCEPT ![t] = NoResult]
    /\ pc' = [pc EXCEPT ![t] = "ret"]
    /\ UNCHANGED mainVars

\* Both opens succeed: fi->fh = ctx.
OpenOk(t) ==
    /\ Serving
    /\ pc[t] = "idle"
    /\ \E flags \in OpenFlags, a \in FreeAddrs :
          /\ ~WantsWrite(flags)
          /\ call' = [call EXCEPT ![t] = [NoCall EXCEPT !.op = "open",
                                                        !.flags = flags,
                                                        !.h = a]]
          /\ ctxs' = [ctxs EXCEPT ![a] = [NewCtx EXCEPT !.source_open = TRUE,
                                                        !.sparse_open = TRUE]]
          /\ fh' = fh \cup {a}
    /\ result' = [result EXCEPT ![t] = NoResult]
    /\ pc' = [pc EXCEPT ![t] = "ret"]
    /\ UNCHANGED mainVars

\* ------------------------------------------------------------ fuse_release

\* Faulty variant: the context is deleted only if its decoder was never
\* moved by a read.
Release_conditional(t) ==
    /\ Serving
    /\ pc[t] = "idle"
    /\ \E a \in fh :
          /\ HostMayRelease(a)
          /\ call' = [call EXCEPT ![t] = [NoCall EXCEPT !.op = "release",
                                                        !.h = a]]
          /\ ctxs' = IF ctxs[a].pos = 0 THEN DeleteCtx(ctxs, a) ELSE ctxs
          /\ fh' = fh \ {a}
    /\ result' = [result EXCEPT ![t] = NoResult]
    /\ pc' = [pc EXCEPT ![t] = "ret"]
    /\ UNCHANGED mainVars

\* delete ctx; return 0.
Release(t) ==
    /\ Serving
    /\ pc[t] = "idle"
    /\ \E a \in fh :
          /\ HostMayRelease(a)
          /\ call' = [call EXCEPT ![t] = [NoCall EXCEPT !.op = "release",
                                                        !.h = a]]
          /\ ctxs' = DeleteCtx(ctxs, a)
          /\ fh' = fh \ {a}
    /\ result' = [result EXCEPT ![t] = NoResult]
    /\ pc' = [pc EXCEPT ![t] = "ret"]
    /\ UNCHANGED mainVars

\* ------------------------------------------------------------ fuse_getattr

\* Faulty variant: the size is probed again on every attribute query.
Getattr_reprobe(t) ==
    /\ Serving
    /\ pc[t] = "idle"
    /\ call' = [call EXCEPT ![t] = [NoCall EXCEPT !.op = "getattr"]]
    /\ sparse_size' = SparseSize
    /\ sizeWrites' = Min(sizeWrites + 1, 2)
    /\ result' = [result EXCEPT ![t] = [NoResult EXCEPT !.st_size = SparseSize]]
    /\ pc' = [pc EXCEPT ![t] = "ret"]
    /\ UNCHANGED <<mainPc, show_help, have_source, have_target, probeRet,
                   probeErr, probeLog, exitStatus, ctxs, fh>>

\* stbuf->st_size = sparse_size; return 0.
Getattr(t) ==
    /\ Serving
    /\ pc[t] = "idle"
    /\ call' = [call EXCEPT ![t] = [NoCall EXCEPT !.op = "getattr"]]
    /\ result' = [result EXCEPT ![t] = [NoResult EXCEPT !.st_size = sparse_size]]
    /\ pc' = [pc EXCEPT ![t] = "ret"]
    /\ UNCHANGED <<mainVars, ctxs, fh>>

\* --------------------------------------------------------------- fuse_read

\* The host calls fuse_read(path, buf, size, offset, fi).
ReadBegin(t) ==
    /\ Serving
    /\ pc[t] = "idle"
    /\ \E a \in fh, o \in Offsets, n \in Lengths :
          /\ HostMayRead(a)
          /\ call' = [call EXCEPT ![t] = [NoCall EXCEPT !.op = "read",
                                                        !.h = a,
                                                        !.offset = o,
                                                        !.size = n]]
    /\ pc' = [pc EXCEPT ![t] = "lock"]
    /\ UNCHANGED <<mainVars, ctxs, fh, result>>

\* Faulty variant: fuse_read without the lock_guard.
ReadLock_nolock(t) ==
    /\ pc[t] = "lock"
    /\ pc' = [pc EXCEPT ![t] = "seek"]
    /\ UNCHANGED <<mainVars, ctxs, fh, call, result>>

\* Faulty variant: one lock serializes the reads of all handles.
ReadLock_global(t) ==
    /\ pc[t] = "lock"
    /\ \A a \in Addrs : ctxs[a].mutex = 0
    /\ ctxs' = [ctxs EXCEPT ![call[t].h].mutex = t]
    /\ pc' = [pc EXCEPT ![t] = "seek"]
    /\ UNCHANGED <<mainVars, fh, call, result>>

\* std::lock_guard<std::mutex> lock(ctx->mutex): blocks while it is held.
ReadLock(t) ==
    /\ pc[t] = "lock"
    /\ ctxs[call[t].h].mutex = 0
    /\ ctxs' = [ctxs EXCEPT ![call[t].h].mutex = t]
    /\ pc' = [pc EXCEPT ![t] = "seek"]
    /\ UNCHANGED <<mainVars, fh, call, result>>

\* Faulty variant: the read continues from the decoder's current position.
ReadSeekOk_noseek(t) ==
    /\ pc[t] = "seek"
    /\ pc' = [pc EXCEPT ![t] = "read"]
    /\ UNCHANGED <<mainVars, ctxs, fh, call, result>>

\* fuse_read_locked: sparse_file.seek(offset, SEEK_SET, nullptr) succeeds.
ReadSeekOk(t) ==
    /\ pc[t] = "seek"
    /\ ctxs' = [ctxs EXCEPT ![call[t].h].pos = SparseSeek(call[t].offset)]
    /\ result' = [result EXCEPT ![t].nseek = @ + 1]
    /\ pc' = [pc EXCEPT ![t] = "read"]
    /\ UNCHANGED <<mainVars, fh, call>>

\* Faulty variant: the seek failure path deletes the context, as the failure
\* paths of fuse_open do.
ReadSeekFail_delete(t) ==
    /\ pc[t] = "seek"
    /\ \E e \in Errors :
          result' = [result EXCEPT ![t] =
                        [result[t] EXCEPT !.ret = TranslateSeek(e),
                                          !.err = e,
                                          !.site = "seek",
                                          !.nseek = @ + 1]]
    /\ ctxs' = DeleteCtx(ctxs, call[t].h)
    /\ pc' = [pc EXCEPT ![t] = "unlock"]
    /\ UNCHANGED <<mainVars, fh, call>>

\* fuse_read_locked: the seek fails, the translated error is returned.
ReadSeekFail(t) ==
    /\ pc[t] = "seek"
    /\ \E e \in Errors :
          result' = [result EXCEPT ![t] =
                        [result[t] EXCEPT !.ret = TranslateSeek(e),
                                          !.err = e,
                                          !.site = "seek",
                                          !.nseek = @ + 1]]
    /\ pc' = [pc EXCEPT ![t] = "unlock"]
    /\ UNCHANGED <<mainVars, ctxs, fh, call>>

\* Faulty variant: the requested size is returned instead of n.
ReadReadOk_size(t) ==
    /\ pc[t] = "read"
    /\ LET c == ctxs[call[t].h]
           n == SparseReadCount(c.pos, call[t].size)
       IN  /\ result' = [result EXCEPT ![t] =
                            [result[t] EXCEPT
                                !.ret = SizeToInt(call[t].size),
                                !.n = n,
                                !.buf = SparseReadBytes(c.pos, call[t].size),
                                !.nread = @ + 1]]
           /\ ctxs' = [ctxs EXCEPT ![call[t].h].pos = c.pos + n]
    /\ pc' = [pc EXCEPT ![t] = "unlock"]
    /\ UNCHANGED <<mainVars, fh, call>>

\* Faulty variant: after a short read the decoder is read once more to fill
\* the rest of the caller's buffer.
ReadReadOk_retry(t) ==
    /\ pc[t] = "read"
    /\ LET c == ctxs[call[t].h]
           n == SparseReadCount(c.pos, call[t].size)
           m == IF n < call[t].size
                THEN SparseReadCount(c.pos + n, call[t].size - n)
                ELSE 0
       IN  /\ result' = [result EXCEPT ![t] =
                            [result[t] EXCEPT
                                !.ret = SizeToInt(n + m),
                                !.n = n + m,
                                !.buf = SparseReadBytes(c.pos, call[t].size)
                                        \o SparseReadBytes(c.pos + n,
                                                           call[t].size - n),
                                !.nread = @ + (IF n < call[t].size
                                               THEN 2 ELSE 1)]]
           /\ ctxs' = [ctxs EXCEPT ![call[t].h].pos = c.pos + n + m]
    /\ pc' = [pc EXCEPT ![t] = "unlock"]
    /\ UNCHANGED <<mainVars, fh, call>>

\* fuse_read_locked: sparse_file.read(buf, size, n) succeeds; return n.
ReadReadOk(t) ==
    /\ pc[t] = "read"
    /\ LET c == ctxs[call[t].h]
           n == SparseReadCount(c.pos, call[t].size)
       IN  /\ result' = [result EXCEPT ![t] =
                            [result[t] EXCEPT
                                !.ret = SizeToInt(n),
                                !.n = n,
                                !.buf = SparseReadBytes(c.pos, call[t].size),
                                !.nread = @ + 1]]
           /\ ctxs' = [ctxs EXCEPT ![call[t].h].pos = c.pos + n]
    /\ pc' = [pc EXCEPT ![t] = "unlock"]
    /\ UNCHANGED <<mainVars, fh, call>>

\* Faulty variant: a failed read is returned as a read of zero bytes.
ReadReadFail_short(t) ==
    /\ pc[t] = "read"
    /\ \E e \in Errors :
          result' = [result EXCEPT ![t] =
                        [result[t] EXCEPT !.ret = 0,
                                          !.err = e,
                                          !.site = "read",
                                          !.nread = @ + 1]]
    /\ pc' = [pc EXCEPT ![t] = "unlock"]
    /\ UNCHANGED <<mainVars, ctxs, fh, call>>

\* fuse_read_locked: the read fails, the translated error is returned.
ReadReadFail(t) ==
    /\ pc[t] = "read"
    /\ \E e \in Errors :
          result' = [result EXCEPT ![t] =
                        [result[t] EXCEPT !.ret = TranslateRead(e),
                                          !.err = e,
                                          !.site = "read",
                                          !.nread = @ + 1]]
    /\ pc' = [pc EXCEPT ![t] = "unlock"]
    /\ UNCHANGED <<mainVars, ctxs, fh, call>>

\* Faulty variant: the error path of fuse_read locks ctx->mutex a second
\* time before it returns; the thread waits for the mutex it holds itself.
ReadUnlock_relock(t) ==
    /\ pc[t] = "unlock"
    /\ result[t].err = NoErr
    /\ ctxs' = [ctxs EXCEPT ![call[t].h].mutex = 0]
    /\ pc' = [pc EXCEPT ![t] = "idle"]
    /\ call' = [call EXCEPT ![t] = NoCall]
    /\ result' = [result EXCEPT ![t] = NoResult]
    /\ UNCHANGED <<mainVars, fh>>

\* Faulty variant: the mutex is unlocked by hand after a successful read
\* only; the error returns leave it locked.
ReadUnlock_onsuccess(t) ==
    /\ pc[t] = "unlock"
    /\ ctxs' = IF result[t].err = NoErr
               THEN [ctxs EXCEPT ![call[t].h].mutex = 0]
               ELSE ctxs
    /\ pc' = [pc EXCEPT ![t] = "idle"]
    /\ call' = [call EXCEPT ![t] = NoCall]
    /\ result' = [result EXCEPT ![t] = NoResult]
    /\ UNCHANGED <<mainVars, fh>>

\* fuse_read returns the value fuse_read_locked produced: the lock_guard's
\* destructor unlocks the mutex and the host takes the result.
ReadUnlock(t) ==
    /\ pc[t] = "unlock"
    /\ ctxs' = [ctxs EXCEPT ![call[t].h].mutex = 0]
    /\ pc' = [pc EXCEPT ![t] = "idle"]
    /\ call' = [call EXCEPT ![t] = NoCall]
    /\ result' = [result EXCEPT ![t] = NoResult]
    /\ UNCHANGED <<mainVars, fh>>

\* fuse_open, fuse_release or fuse_getattr has returned: the host takes the
\* result and the thread is free for the next callback.
Return(t) ==
    /\ pc[t] = "ret"
    /\ pc' = [pc EXCEPT ![t] = "idle"]
    /\ call' = [call EXCEPT ![t] = NoCall]
    /\ result' = [result EXCEPT ![t] = NoResult]
    /\ UNCHANGED <<mainVars, ctxs, fh>>

\* ----------------------------------------------------------- specification

\* One step of main().
MainStep ==
    \/ MainParseFail
    \/ MainParse
    \/ MainOpenSource
    \/ ProbeSourceFail
    \/ ProbeSparseFail
    \/ ProbeOk
    \/ MainCheckProbe
    \/ MainFuseMain
    \/ MainFuseReturn

\* One step of the callback that worker thread t runs.
Callback(t) ==
    \/ OpenRofs(t)
    \/ OpenNoMem(t)
    \/ OpenSourceFail(t)
    \/ OpenSparseFail(t)
    \/ OpenOk(t)
    \/ Release(t)
    \/ Getattr(t)
    \/ ReadBegin(t)
    \/ ReadLock(t)
    \/ ReadSeekOk(t)
    \/ ReadSeekFail(t)
    \/ ReadReadOk(t)
    \/ ReadReadFail(t)
    \/ ReadUnlock(t)
    \/ Return(t)

\* The host's multi-threaded loop: any worker thread may run a callback.
Next == MainStep \/ \E t \in Threads : Callback(t)

Spec == Init /\ [][Next]_vars

\* The host's single-threaded loop (mount option -s, passed through to
\* fuse_main): one thread runs the callbacks one after the other.
NextSeq == MainStep \/ Callback(1)

SpecSeq == Init /\ [][NextSeq]_vars

\* A step of fuse_read once the host has called it: acquiring the mutex, the
\* decoder's seek and read returning with either outcome, and the return
\* through the lock_guard's destructor.
ReadStep(t) ==
    \/ ReadLock(t)
    \/ ReadSeekOk(t)
    \/ ReadSeekFail(t)
    \/ ReadReadOk(t)
    \/ ReadReadFail(t)
    \/ ReadUnlock(t)

\* The multi-threaded loop with the scheduling the code can rely on: a
\* worker thread that can take a step of fuse_read for long enough takes it,
\* and every decoder call returns.  std::mutex promises no order among the
\* threads waiting for it, so the fairness is weak: a thread whose lock
\* attempt is enabled only intermittently is promised nothing.
FairSpec == Init /\ [][Next]_vars /\ \A t \in Threads : WF_vars(ReadStep(t))

\* ------------------------------------------------- reads of large requests

\* INT_MAX of the callback's result type.
IntMax == Pow2(IntBits - 1) - 1

\* A decoded image as long as the largest count a size_t request can name.
LargeImageSize == Pow2(IntBits) - 1

\* The requested sizes (every value of the scaled size_t) and offsets (the
\* start, the end and their neighbours) of a read of the large image.
LargeLengths == 0..LargeImageSize

LargeOffsets == {0, 1, LargeImageSize - 1, LargeImageSize}

\* SparseFile::read(buf, size, n) on the large image: count and bytes.
LargeReadCount(pos, size) == Min(size, Max(0, sparse_size - pos))

LargeReadBytes(pos, size) ==
    [i \in 1..LargeReadCount(pos, size) |-> 48 + ((pos + i - 1) % 10)]

\* The file system is exported with a large image, one handle is open and
\* the host has called fuse_read on it with some offset and size.
InitLarge ==
    /\ mainPc = "serving"
    /\ show_help = FALSE
    /\ have_source = TRUE
    /\ have_target = TRUE
    /\ probeRet = 0
    /\ probeErr = NoErr
    /\ probeLog = NoErr
    /\ exitStatus = 0
    /\ sparse_size = LargeImageSize
    /\ sizeWrites = 1
    /\ ctxs = [a \in Addrs |->
                 IF a = 1 THEN [NewCtx EXCEPT !.source_open = TRUE,
                                              !.sparse_open = TRUE]
                          ELSE NoCtx]
    /\ fh = {1}
    /\ pc = [t \in Threads |-> IF t = 1 THEN "lock" ELSE "idle"]
    /\ \E offset \in LargeOffsets, size \in LargeLengths :
          call = [t \in Threads |->
                    IF t = 1 THEN [NoCall EXCEPT !.op = "read", !.h = 1,
                                                 !.offset = offset,
                                                 !.size = size]
                             ELSE NoCall]
    /\ result = [t \in Threads |-> NoResult]

\* fuse_read_locked: sparse_file.read(buf, size, n) succeeds on the large
\* image; return n.
ReadLargeOk(t) ==
    /\ pc[t] = "read"
    /\ LET c == ctxs[call[t].h]
           n == LargeReadCount(c.pos, call[t].size)
       IN  /\ result' = [result EXCEPT ![t] =
                            [result[t] EXCEPT
                                !.ret = SizeToInt(n),
                                !.n = n,
                                !.buf = LargeReadBytes(c.pos, call[t].size),
                                !.nread = @ + 1]]
           /\ ctxs' = [ctxs EXCEPT ![call[t].h].pos = c.pos + n]
    /\ pc' = [pc EXCEPT ![t] = "unlock"]
    /\ UNCHANGED <<mainVars, fh, call>>

\* One fuse_read of the large image, from the call to the return.
NextLarge ==
    \/ ReadLock(1)
    \/ ReadSeekOk(1)
    \/ ReadLargeOk(1)
    \/ ReadUnlock(1)

SpecLarge == InitLarge /\ [][NextLarge]_vars

\* ------------------------------------------------------------- properties

\* A thread holds (or believes it holds) the mutex of the handle it reads:
\* it is between the seek and the return of fuse_read_locked.
InCritical(t) == pc[t] \in {"seek", "read", "unlock"}

\* fuse_read_locked has returned a byte count to fuse_read.
ReadSucceeded(t) == pc[t] = "unlock" /\ result[t].err = NoErr

\* fuse_read_locked has returned an error to fuse_read.
ReadFailed(t) == pc[t] = "unlock" /\ result[t].err # NoErr

\* fuse_open has returned after one of its two opens failed.
OpenFailed(t) ==
    pc[t] = "ret" /\ call[t].op = "open" /\ result[t].err # NoErr

\* The translation the error policy prescribes for an error.
Policy(e) ==
    IF e.category \in {"generic", "system"} THEN -e.value ELSE -EIO

\* C1: the seek-then-read sequence of fuse_read is a critical section of the
\* handle's mutex: at most one thread is between the seek and the end of the
\* read on one context, that thread owns the mutex, and every read that
\* succeeds returns the bytes at its own offset, never those at the seek
\* position of a concurrent read on the same handle.
C1_ReadsSerialized ==
    /\ \A t1 \in Threads, t2 \in Threads :
          (t1 # t2 /\ InCritical(t1) /\ InCritical(t2))
             => call[t1].h # call[t2].h
    /\ \A t \in Threads : InCritical(t) => ctxs[call[t].h].mutex = t
    /\ \A t \in Threads :
          ReadSucceeded(t)
             => result[t].buf = Decoded(call[t].offset, call[t].size)

\* C1 witness: one read has produced its bytes while another read on the same
\* handle, for a different offset, waits for the mutex.
C1_Witness ==
    \E t1 \in Threads, t2 \in Threads :
       /\ ReadSucceeded(t1)
       /\ Len(result[t1].buf) > 0
       /\ pc[t2] = "lock"
       /\ call[t2].h = call[t1].h
       /\ call[t2].offset # call[t1].offset

\* C2: an open that asks for write or read-write access returns -EROFS and
\* leaves the heap of contexts (with their byte sources and decoders) and the
\* set of handles as they were.
C2_WriteOpenRejected ==
    [][\A t \in Threads :
          (/\ pc[t] = "idle"
           /\ pc'[t] = "ret"
           /\ call'[t].op = "open"
           /\ (call'[t].flags % 4) \in {O_WRONLY, O_RDWR})
             => (/\ result'[t].ret = -EROFS
                 /\ ctxs' = ctxs
                 /\ fh' = fh)]_vars

\* C2 witness: a read-write open was refused while another handle is open.
C2_Witness ==
    \E t \in Threads :
       /\ pc[t] = "ret"
       /\ call[t].op = "open"
       /\ call[t].flags = O_RDWR
       /\ result[t].ret = -EROFS
       /\ fh # {}

\* C3: an open whose byte-source open or decoder open fails returns a
\* negative code and leaves every context (live set, decoder positions,
\* mutexes) and the set of handles as they were: the context it allocated is
\* destroyed again.
C3_FailedOpenAtomic ==
    [][\A t \in Threads :
          (/\ pc[t] = "idle"
           /\ pc'[t] = "ret"
           /\ call'[t].op = "open"
           /\ result'[t].err # NoErr)
             => (/\ result'[t].ret < 0
                 /\ ctxs' = ctxs
                 /\ fh' = fh)]_vars

\* C3 witness: the decoder open failed while another handle is open whose
\* decoder has been moved by a read.
C3_Witness ==
    \E t \in Threads, a \in fh :
       /\ OpenFailed(t)
       /\ result[t].site = "open_sparse"
       /\ ctxs[a].pos > 0
       /\ \A b \in Addrs : ctxs[b].live => b \in fh

\* C4: at every site (size probe, open, seek, read) a failure is translated
\* by the same function: the negated value for the generic and the system
\* category, -EIO for any other.
C4_OneTranslation ==
    /\ \A t \in Threads :
          result[t].err # NoErr => result[t].ret = Policy(result[t].err)
    /\ probeErr # NoErr => probeRet = Policy(probeErr)

\* C4 witness: an open has failed with a system-category error and returned
\* its negated value while the probe had succeeded.
C4_Witness ==
    \E t \in Threads :
       /\ OpenFailed(t)
       /\ result[t].site = "open_sparse"
       /\ result[t].err.category = "system"
       /\ result[t].ret = -result[t].err.value

\* C5: when the decoder's seek or read fails, fuse_read returns a negative
\* error code, never a byte count.
C5_ReadErrorNegative ==
    \A t \in Threads : ReadFailed(t) => result[t].ret < 0

\* C5 witness: a read has failed in the decoder's read, after its seek
\* succeeded, and returned a negative code.
C5_Witness ==
    \E t \in Threads :
       /\ ReadFailed(t)
       /\ result[t].site = "read"
       /\ call[t].size > 0
       /\ result[t].ret < 0

\* C6: a read at (o, n) with o + n <= Logical Size that meets no decoder
\* failure returns n and the n bytes of the decoded image at [o, o + n),
\* whatever position earlier reads left the decoder at.
C6_ReadInRange ==
    \A t \in Threads :
       (ReadSucceeded(t) /\ call[t].offset + call[t].size <= sparse_size)
          => /\ result[t].ret = call[t].size
             /\ Len(result[t].buf) = call[t].size
             /\ \A i \in 1..call[t].size :
                   result[t].buf[i] = Image[call[t].offset + i]

\* C6 witness: a read at a non-zero offset that ends exactly at Logical Size
\* has returned all the bytes asked for.
C6_Witness ==
    \E t \in Threads :
       /\ ReadSucceeded(t)
       /\ call[t].offset > 0
       /\ call[t].size > 0
       /\ call[t].offset + call[t].size = sparse_size
       /\ result[t].ret = call[t].size
       /\ ctxs[call[t].h].pos = sparse_size

\* C7: a read that meets no decoder failure returns 0 bytes when its offset
\* is at or beyond Logical Size, and only the bytes up to Logical Size when
\* it starts below and extends past it.
C7_ReadAtEnd ==
    \A t \in Threads :
       ReadSucceeded(t) =>
          /\ call[t].offset >= sparse_size
                => (result[t].ret = 0 /\ result[t].buf = <<>>)
          /\ (/\ call[t].offset < sparse_size
              /\ call[t].offset + call[t].size > sparse_size)
                => /\ result[t].ret = sparse_size - call[t].offset
                   /\ result[t].buf
                         = SubSeq(Image, call[t].offset + 1, ImageSize)

\* C7 witness: a read of several bytes beyond Logical Size has returned 0
\* with no error.
C7_Witness ==
    \E t \in Threads :
       /\ ReadSucceeded(t)
       /\ call[t].offset > sparse_size
       /\ call[t].size > 1
       /\ result[t].ret = 0

\* C8: every attribute query returns 0 and the size the probe learned; the
\* cached size keeps that value as long as the file system is exported.
C8_GetattrSize ==
    /\ Serving => sparse_size = SparseSize
    /\ \A t \in Threads :
          (pc[t] = "ret" /\ call[t].op = "getattr")
             => (result[t].ret = 0 /\ result[t].st_size = SparseSize)

\* C8 witness: an attribute query has returned the size after a read moved
\* the decoder of a handle that is still open.
C8_Witness ==
    \E t \in Threads, a \in fh :
       /\ pc[t] = "ret"
       /\ call[t].op = "getattr"
       /\ result[t].st_size = ImageSize
       /\ ctxs[a].pos > 0

\* C9: once the source open or the decoder open of the size probe has
\* failed, fuse_main is never entered, no callback runs, and the process
\* exits with a non-zero status.
C9_ProbeFailureFatal ==
    probeErr # NoErr =>
       /\ mainPc \in {"probed", "exited"}
       /\ \A t \in Threads : pc[t] = "idle"
       /\ mainPc = "exited" => exitStatus # 0

\* C9 witness: the process has exited after the decoder open of the probe
\* failed with an error outside the generic and system categories.
C9_Witness ==
    /\ mainPc = "exited"
    /\ probeErr.category = "sparse"
    /\ probeRet = -EIO
    /\ exitStatus = EXIT_FAILURE

\* main() is at or past its call of fuse_main.
ReachedFuseMain == mainPc \in {"fuse_main", "help", "mount_failed", "serving"}

\* C10 as claimed: on every execution that reaches fuse_main, sparse_size has
\* been written exactly once.
C10_Original == ReachedFuseMain => sizeWrites = 1

\* C10 amended: on every execution that reaches fuse_main without show_help,
\* sparse_size has been written exactly once, before any callback can run,
\* and is never written afterwards; with show_help fuse_main is entered
\* with no write at all, and no callback ever runs.
C10_WrittenOnceBeforeExport ==
    /\ (ReachedFuseMain /\ ~show_help)
          => (sizeWrites = 1 /\ sparse_size = SparseSize)
    /\ (ReachedFuseMain /\ show_help) => sizeWrites = 0
    /\ (\E t \in Threads : pc[t] # "idle") => (Serving /\ sizeWrites = 1)
    /\ sizeWrites <= 1

\* C10 witness: a callback has run on the exported file system after the
\* one write.
C10_Witness ==
    /\ Serving
    /\ sizeWrites = 1
    /\ \E t \in Threads : pc[t] = "ret" /\ call[t].op = "getattr"

\* Thread t takes the step in which fuse_open returns 0.
OpenSucceeds(t) ==
    /\ pc[t] = "idle"
    /\ pc'[t] = "ret"
    /\ call'[t].op = "open"
    /\ result'[t].ret = 0

\* Thread t takes the step in which fuse_release returns.
ReleaseReturns(t) ==
    /\ pc[t] = "idle"
    /\ pc'[t] = "ret"
    /\ call'[t].op = "release"

\* C11: the live contexts are exactly the handle values of the opens not yet
\* released; every successful open adds one handle whose value no open
\* handle carries and whose context is newly constructed (opened source and
\* decoder, position 0, mutex free), and touches no other context; every
\* release removes exactly the handle it is given.
C11_OneContextPerOpen ==
    [][/\ {a \in Addrs : ctxs'[a].live} = fh'
       /\ \A t \in Threads :
             OpenSucceeds(t) =>
                LET a == call'[t].h
                IN  /\ a \in Addrs
                    /\ a \notin fh
                    /\ ~ctxs[a].live
                    /\ fh' = fh \cup {a}
                    /\ ctxs'[a] = [live |-> TRUE, source_open |-> TRUE,
                                   sparse_open |-> TRUE, pos |-> 0, mutex |-> 0]
                    /\ \A b \in Addrs \ {a} : ctxs'[b] = ctxs[b]
       /\ \A t \in Threads :
             ReleaseReturns(t) =>
                /\ call'[t].h \in fh
                /\ fh' = fh \ {call'[t].h}]_vars

\* C11 witness: an open has just succeeded while another handle, whose
\* decoder a read has moved, is open: two contexts, two handle values.
C11_Witness ==
    \E t \in Threads, a \in fh :
       /\ pc[t] = "ret"
       /\ call[t].op = "open"
       /\ result[t].ret = 0
       /\ call[t].h \in fh
       /\ a # call[t].h
       /\ ctxs[a].pos > 0
       /\ ctxs[call[t].h].pos = 0

\* C12: the step in which fuse_release returns leaves the handle's context
\* destroyed (not allocated, decoder and byte source closed), whatever
\* position reads left its decoder at, removes the handle, and returns 0.
C12_ReleaseDestroys ==
    [][\A t \in Threads :
          ReleaseReturns(t) =>
             /\ ctxs[call'[t].h].live
             /\ ctxs'[call'[t].h] = NoCtx
             /\ call'[t].h \notin fh'
             /\ result'[t].ret = 0]_vars

\* C12 witness: a release has returned 0, its context is gone, and another
\* handle is still open.
C12_Witness ==
    \E t \in Threads :
       /\ pc[t] = "ret"
       /\ call[t].op = "release"
       /\ result[t].ret = 0
       /\ ~ctxs[call[t].h].live
       /\ fh # {}

\* C13: a seek or read failure in fuse_read changes no context and no
\* handle; when the failed fuse_read returns, its context is still live with
\* its mutex released, its handle is still open (so that a later read or
\* release can be issued on it), and no other context has changed.
C13_FailedReadKeepsHandle ==
    [][\A t \in Threads :
          LET a == call[t].h
          IN  /\ (/\ pc[t] \in {"seek", "read"}
                  /\ pc'[t] = "unlock"
                  /\ result'[t].err # NoErr)
                    => (/\ ctxs' = ctxs
                        /\ fh' = fh
                        /\ ctxs[a].live
                        /\ a \in fh)
              /\ (/\ pc[t] = "unlock"
                  /\ result[t].err # NoErr
                  /\ pc'[t] = "idle")
                    => (/\ ctxs'[a].live
                        /\ ctxs'[a].mutex = 0
                        /\ ctxs'[a].pos = ctxs[a].pos
                        /\ fh' = fh
                        /\ a \in fh'
                        /\ \A b \in Addrs \ {a} : ctxs'[b] = ctxs[b])]_vars

\* C13 witness: a read has failed in the decoder's read on a handle while
\* another handle, whose decoder a read has moved, is open.
C13_Witness ==
    \E t \in Threads, b \in fh :
       /\ ReadFailed(t)
       /\ result[t].site = "read"
       /\ ctxs[call[t].h].live
       /\ call[t].h \in fh
       /\ b # call[t].h
       /\ ctxs[b].pos > 0

\* C14: a read is made to wait only by a read on its own handle: a thread
\* at the lock_guard can acquire the mutex whenever no other thread is inside
\* the critical section of the same handle, whatever reads are in progress
\* on other handles, and a thread inside the critical section can always
\* take its next step.
C14_NoCrossHandleBlocking ==
    \A t \in Threads :
       /\ (/\ pc[t] = "lock"
           /\ \A t2 \in Threads \ {t} :
                 InCritical(t2) => call[t2].h # call[t].h)
             => ENABLED ReadLock(t)
       /\ pc[t] = "seek" => ENABLED ReadSeekOk(t)
       /\ pc[t] = "read" => ENABLED ReadReadOk(t)
       /\ pc[t] = "unlock" => ENABLED ReadUnlock(t)

\* C14 witness: a thread is about to lock the mutex of one handle while
\* another thread is between seek and read on a different handle.
C14_Witness ==
    \E t1 \in Threads, t2 \in Threads :
       /\ pc[t1] = "lock"
       /\ pc[t2] = "read"
       /\ call[t1].h # call[t2].h
       /\ ctxs[call[t2].h].mutex = t2
       /\ ctxs[call[t1].h].mutex = 0

\* C15 as stated: every failure path (size probe, open, seek, read) has
\* logged the error it returns.
C15_Original ==
    /\ probeErr # NoErr => probeLog = probeErr
    /\ \A t \in Threads :
          result[t].err # NoErr => result[t].log = result[t].err

\* C15 (amended): every failure is returned to the caller as its translated
\* code; the size probe and fuse_open also log the error they return, while
\* the seek and read failures of fuse_read log nothing.
C15_FailuresReported ==
    /\ probeErr # NoErr
          => (probeLog = probeErr /\ probeRet = Policy(probeErr))
    /\ \A t \in Threads :
          /\ OpenFailed(t)
                => (/\ result[t].log = result[t].err
                    /\ result[t].ret = Policy(result[t].err))
          /\ ReadFailed(t)
                => (/\ result[t].log = NoErr
                    /\ result[t].ret = Policy(result[t].err))

\* C15 witness: a read has failed in the decoder's seek and returned the
\* translated code with nothing logged.
C15_Witness ==
    \E t \in Threads :
       /\ ReadFailed(t)
       /\ result[t].site = "seek"
       /\ result[t].log = NoErr
       /\ result[t].ret = -result[t].err.value

\* C16 as stated: every fuse_read that has been invoked, including one that
\* waits for the handle's mutex while other reads on the handle keep
\* arriving, eventually returns.
C16_Original ==
    \A t \in Threads : (pc[t] = "lock") ~> (pc[t] = "idle")

\* C16 (amended): every fuse_read that has acquired its handle's mutex
\* eventually returns, and every return of fuse_read (after a success, a
\* seek failure or a read failure) leaves the mutex released.
C16_HolderReturns ==
    /\ \A t \in Threads : InCritical(t) ~> (pc[t] = "idle")
    /\ [][\A t \in Threads :
            (pc[t] = "unlock" /\ pc'[t] = "idle")
               => ctxs'[call[t].h].mutex = 0]_vars

\* C16 witness: a read is about to return after a seek failure, still holding
\* the mutex, while another read waits for the mutex of the same handle.
C16_Witness ==
    \E t1 \in Threads, t2 \in Threads :
       /\ ReadFailed(t1)
       /\ result[t1].site = "seek"
       /\ ctxs[call[t1].h].mutex = t1
       /\ pc[t2] = "lock"
       /\ call[t2].h = call[t1].h

\* C17: every fuse_read seeks the decoder exactly once and reads it at most
\* once (not at all after a failed seek); a read that succeeds returns the
\* count the decoder's one read produced at the requested offset (as the
\* callback's int), also when it is smaller than the size asked for.
C17_ShortReadAsIs ==
    \A t \in Threads :
       /\ pc[t] = "read" => (result[t].nseek = 1 /\ result[t].nread = 0)
       /\ ReadFailed(t)
             => /\ result[t].nseek = 1
                /\ result[t].nread = (IF result[t].site = "read" THEN 1 ELSE 0)
       /\ ReadSucceeded(t)
             => /\ result[t].nseek = 1
                /\ result[t].nread = 1
                /\ result[t].n = SparseReadCount(call[t].offset, call[t].size)
                /\ result[t].ret = SizeToInt(result[t].n)
                /\ Len(result[t].buf) = result[t].n

\* C17 witness: a read that starts inside the image and asks for more bytes
\* than remain has returned the smaller, non-zero count.
C17_Witness ==
    \E t \in Threads :
       /\ ReadSucceeded(t)
       /\ result[t].ret > 0
       /\ result[t].ret < call[t].size
       /\ result[t].nread = 1

\* C18: when fuse_open returns, its result is 0 exactly if fi->fh holds a
\* live context whose byte source and decoder are open; otherwise the result
\* is strictly negative, fi->fh was not assigned, and no handle the host
\* holds refers to a destroyed context.
C18_OpenResult ==
    /\ \A t \in Threads :
          (pc[t] = "ret" /\ call[t].op = "open") =>
             /\ result[t].ret = 0
                   <=> (/\ call[t].h \in fh
                        /\ ctxs[call[t].h].live
                        /\ ctxs[call[t].h].source_open
                        /\ ctxs[call[t].h].sparse_open)
             /\ result[t].ret # 0
                   => (result[t].ret < 0 /\ call[t].h = NoCall.h)
    /\ \A a \in fh :
          ctxs[a].live /\ ctxs[a].source_open /\ ctxs[a].sparse_open

\* C18 witness: an open has failed in the decoder open with an error outside
\* the generic and system categories and returned -EIO without assigning
\* fi->fh, while an earlier handle is open.
C18_Witness ==
    \E t \in Threads :
       /\ OpenFailed(t)
       /\ result[t].site = "open_sparse"
       /\ result[t].err.category = "sparse"
       /\ result[t].ret = -EIO
       /\ call[t].h = NoCall.h
       /\ fh # {}

\* C19: whenever a thread is inside fuse_read for a handle, waiting for the
\* context's mutex or holding it, the context is live, its byte source and
\* decoder are open and the handle has not been released: the host releases
\* a handle only when no read on it is in progress, and fuse_release is the
\* only callback that destroys the context of an open handle.
C19_NoDestroyDuringRead ==
    /\ \A t \in Threads, a \in Addrs :
          InRead(t, a)
             => (/\ ctxs[a].live
                 /\ ctxs[a].source_open
                 /\ ctxs[a].sparse_open
                 /\ a \in fh)
    /\ \A t \in Threads :
          pc[t] \in {"lock", "seek", "read", "unlock"}
             => call[t].h \in Addrs

\* C19 witness: a release has destroyed the context of one handle while
\* another thread is between seek and read on a different handle, whose
\* context is live.
C19_Witness ==
    \E t1 \in Threads, t2 \in Threads :
       /\ pc[t1] = "read"
       /\ ctxs[call[t1].h].live
       /\ ctxs[call[t1].h].mutex = t1
       /\ pc[t2] = "ret"
       /\ call[t2].op = "release"
       /\ call[t2].h # call[t1].h
       /\ ~ctxs[call[t2].h].live

\* C20 as stated: for any requested size, a successful fuse_read returns
\* the count n the decoder produced, a value in 0..size.
C20_Original ==
    \A t \in Threads :
       ReadSucceeded(t)
          => (/\ result[t].ret = result[t].n
              /\ result[t].ret \in 0..call[t].size)

\* C20 (amended): for any requested size up to INT_MAX, a successful
\* fuse_read returns the count n the decoder produced, a value in 0..size.
C20_CountPreserved ==
    \A t \in Threads :
       (ReadSucceeded(t) /\ call[t].size <= IntMax)
          => (/\ result[t].ret = result[t].n
              /\ result[t].ret \in 0..call[t].size)

\* C20 witness: a read of INT_MAX bytes from the start of an image longer
\* than that has returned INT_MAX.
C20_Witness ==
    \E t \in Threads :
       /\ ReadSucceeded(t)
       /\ call[t].size = IntMax
       /\ result[t].n = IntMax
       /\ result[t].ret = IntMax

====
